---- MODULE Spec2Model ----
(***************************************************************************)
(* Model of the mixnet core engine (src/src/core/mod.rs, struct Mixnet).   *)
(* The engine is single-threaded: every public method is one atomic        *)
(* action.  Collaborators whose code lives in sibling modules (sessions,   *)
(* kx_store, packet_queues, replay_filter, sphinx, fragment, topology,     *)
(* surb_keystore, request_builder) are modelled from their contracts.      *)
(***************************************************************************)
EXTENDS Integers, Sequences, FiniteSets, TLC

(***************************************************************************)
(* Bounds of the model.                                                    *)
(***************************************************************************)
\* The session indices 0 .. NumSessionIndices - 1 are the ones a session
\* status reports.
NumSessionIndices == 3
\* Key-exchange secrets ever generated by the key store.
MaxKeys == 2
\* Config::forward_packet_queue_capacity
ForwardQueueCapacity == 2
\* SessionConfig::authored_packet_queue_capacity
AuthoredQueueCapacity == 2
\* Config::max_fragments_per_message
MaxFragmentsPerMessage == 2
\* Config::min_mixnodes
MinMixnodes == 1
\* Config::surb_keystore_capacity
SurbKeystoreCapacity == 1
\* SURB ids ever generated by the SURB keystore.
MaxSurbIds == 1
\* Largest reading of the monotonic clock (Instant::now()).
MaxNow == 1
\* Largest forwarding delay carried by a packet, in clock units.
MaxDelay == 1
\* Message ids a caller or the random generator can pick.
MaxMessageId == 1

\* SessionIndex is u32 in the code; the model keeps a narrow width, wide
\* enough that the index before 0 is not one a session status reports.
IndexModulus == NumSessionIndices + 2

SessionIndex == 0 .. (IndexModulus - 1)

ReportedIndex == 0 .. (NumSessionIndices - 1)

None == "None"

\* Option<Instant>::None, as a deadline before every instant.
NoDeadline == 0 - 1

(***************************************************************************)
(* u32 arithmetic on session indices.                                      *)
(***************************************************************************)
wrapping_sub(a, b) == (a - b) % IndexModulus

saturating_sub(a, b) == IF a > b THEN a - b ELSE 0

(***************************************************************************)
(* sessions.rs: relative session indices, phases and slots.                *)
(***************************************************************************)
Current == "Current"
Prev == "Prev"
RelSessionIndex == {Current, Prev}

\* impl Add<SessionIndex> for RelSessionIndex
RelAdd(rel, index) == IF rel = Current THEN index ELSE wrapping_sub(index, 1)

SessionPhase ==
    {"ConnectToCurrent", "CoverToCurrent", "RequestsAndRepliesToCurrent",
     "CoverToPrev", "DisconnectFromPrev"}

need_prev(phase) == phase # "DisconnectFromPrev"

allow_requests_and_replies(phase, rel) ==
    IF rel = Prev
    THEN phase \in {"ConnectToCurrent", "CoverToCurrent", "RequestsAndRepliesToCurrent"}
    ELSE phase \in {"RequestsAndRepliesToCurrent", "CoverToPrev", "DisconnectFromPrev"}

gen_cover_packets(phase, rel) ==
    IF rel = Prev
    THEN phase # "DisconnectFromPrev"
    ELSE phase # "ConnectToCurrent"

default_request_session(phase) ==
    IF phase \in {"RequestsAndRepliesToCurrent", "CoverToPrev", "DisconnectFromPrev"}
    THEN Current
    ELSE Prev

SessionStatus == [current_index : ReportedIndex, phase : SessionPhase]

Empty == [tag |-> "Empty"]
Disabled == [tag |-> "Disabled"]
Full(session) == [tag |-> "Full", session |-> session]

is_empty(slot) == slot.tag = "Empty"
is_full(slot) == slot.tag = "Full"

\* Sessions::default()
SessionsDefault == [current |-> Empty, prev |-> Empty]

Slot(ss, rel) == IF rel = Current THEN ss.current ELSE ss.prev

SetSlot(ss, rel, slot) ==
    IF rel = Current THEN [ss EXCEPT !.current = slot] ELSE [ss EXCEPT !.prev = slot]

\* Sessions::advance_by_one
advance_by_one(ss) == [current |-> Empty, prev |-> ss.current]

(***************************************************************************)
(* kx_store.rs: per-session key-exchange secrets.  A secret is named by    *)
(* the order in which it was generated; 0 stands for "no secret".          *)
(***************************************************************************)
KxStoreNew ==
    [secret |-> [i \in SessionIndex |-> 0], discarded_before |-> 0, generated |-> 0]

\* KxStore::discard_sessions_before
discard_sessions_before(kx, index) ==
    [kx EXCEPT !.secret = [i \in SessionIndex |-> IF i < index THEN 0 ELSE kx.secret[i]],
               !.discarded_before = index]

\* KxPublicStore::public_for_session: is a key available (or can one be made)?
has_public_for_session(kx, index) == index >= kx.discarded_before

\* KxPublicStore::public_for_session: the store after the lookup.
public_for_session(kx, index) ==
    IF kx.secret[index] # 0
    THEN kx
    ELSE [kx EXCEPT !.secret[index] = kx.generated + 1, !.generated = kx.generated + 1]

\* KxStore::session_exchange: the secret shared with a packet, if the session has one.
session_exchange(kx, index) == kx.secret[index]

(***************************************************************************)
(* packet_queues.rs: ForwardPacketQueue, kept as a sequence ordered by     *)
(* deadline.                                                               *)
(***************************************************************************)
next_deadline(queue) == IF Len(queue) = 0 THEN NoDeadline ELSE queue[1].deadline

remaining_capacity(queue, capacity) == capacity - Len(queue)

\* Number of queued packets whose deadline is not later than d.
NotLater(queue, d) == Cardinality({i \in 1 .. Len(queue) : queue[i].deadline <= d})

\* ForwardPacketQueue::insert: the queue afterwards.
ForwardInsert(queue, entry) ==
    LET k == NotLater(queue, entry.deadline)
    IN  SubSeq(queue, 1, k) \o <<entry>> \o SubSeq(queue, k + 1, Len(queue))

\* ForwardPacketQueue::insert: its result, whether the head's deadline changed.
HeadChanged(queue, entry) == next_deadline(ForwardInsert(queue, entry)) # next_deadline(queue)

RemoveAt(queue, i) == SubSeq(queue, 1, i - 1) \o SubSeq(queue, i + 1, Len(queue))

\* Every position of the queue.
AnyPosition(queue) == 1 .. Len(queue)

\* Positions pop may take: the heap's top, any packet of least deadline.
PopPositions(queue) == {i \in 1 .. Len(queue) : queue[i].deadline = queue[1].deadline}

(***************************************************************************)
(* Invalidated bit flags.                                                  *)
(***************************************************************************)
RESERVED_PEERS == "RESERVED_PEERS"
NEXT_FORWARD_PACKET_DEADLINE == "NEXT_FORWARD_PACKET_DEADLINE"
NEXT_AUTHORED_PACKET_DEADLINE == "NEXT_AUTHORED_PACKET_DEADLINE"
InvalidatedAll ==
    {RESERVED_PEERS, NEXT_FORWARD_PACKET_DEADLINE, NEXT_AUTHORED_PACKET_DEADLINE}

(***************************************************************************)
(* The engine's state (struct Mixnet), the clock it reads, and a record of *)
(* the last call: its name and the branch (or log line) it ended on.       *)
(***************************************************************************)
VARIABLES
    config,                 \* Config (fixed at construction)
    session_status,         \* SessionStatus
    kx_store,               \* KxStore
    sessions,               \* Sessions
    forward_packet_queue,   \* ForwardPacketQueue, ordered by deadline
    surb_keystore,          \* SurbKeystore
    fragment_assembler,     \* FragmentAssembler
    invalidated,            \* Invalidated
    now,                    \* last reading of Instant::now()
    last,                   \* the last call and its outcome
    discarded,              \* history: keys of the sessions discarded so far
    last_popped,            \* history: deadline of the last forward packet popped
    inserted_earlier,       \* history: a packet due before last_popped was queued since
    deadline_at_take,       \* history: next_forward_packet_deadline() at the last take
    accepted                \* history: packets queued for forwarding or fed as a request

engine ==
    <<config, session_status, kx_store, sessions, forward_packet_queue,
      surb_keystore, fragment_assembler, invalidated>>

history == <<discarded, last_popped, inserted_earlier, deadline_at_take, accepted>>

vars == <<config, session_status, kx_store, sessions, forward_packet_queue,
          surb_keystore, fragment_assembler, invalidated, now, last, history>>

Call(op, note) == [op |-> op, note |-> note]

\* Config values the model lets vary.
Configs == [gen_cover_packets : BOOLEAN, non_mixnode_session : BOOLEAN]

\* Mixnet::new
MixnetNew(cfg) ==
    /\ config = cfg
    /\ session_status = [current_index |-> 0, phase |-> "ConnectToCurrent"]
    /\ sessions = SessionsDefault
    /\ kx_store = KxStoreNew
    /\ forward_packet_queue = << >>
    /\ surb_keystore = [entries |-> << >>, generated |-> 0]
    /\ fragment_assembler = {}
    /\ invalidated = {}
    /\ now = 0
    /\ last = Call("new", "new")
    /\ discarded = {}
    /\ last_popped = NoDeadline
    /\ inserted_earlier = FALSE
    /\ deadline_at_take = NoDeadline
    /\ accepted = {}

(***************************************************************************)
(* set_session_status                                                      *)
(***************************************************************************)
\* Mutant: every change of index rotates, none resets.
ShiftSessions_always_rotate(ss, old_index, new_index) ==
    IF old_index # new_index THEN advance_by_one(ss) ELSE ss

\* Mutant: the slots are cleared whenever the index has not advanced by one,
\* an unchanged index included.
ShiftSessions_unchecked(ss, old_index, new_index) ==
    IF saturating_sub(new_index, old_index) = 1 THEN advance_by_one(ss)
    ELSE SessionsDefault

\* Shift sessions in self.sessions when the current session changes.
ShiftSessions(ss, old_index, new_index) ==
    IF old_index # new_index
    THEN IF saturating_sub(new_index, old_index) = 1
         THEN advance_by_one(ss)
         ELSE SessionsDefault
    ELSE ss

\* Discard sessions which are no longer needed.
DiscardPrev(ss, phase) ==
    IF ~need_prev(phase) THEN [ss EXCEPT !.prev = Disabled] ELSE ss

min_needed_rel_session_index(phase) == IF need_prev(phase) THEN Prev ELSE Current

\* Mutant: a status change raises no flag.
StatusInvalidated_none(inv) == inv

\* self.invalidated |= RESERVED_PEERS | NEXT_AUTHORED_PACKET_DEADLINE
StatusInvalidated(inv) == inv \cup {RESERVED_PEERS, NEXT_AUTHORED_PACKET_DEADLINE}

\* The state set_session_status(status) leaves behind.
StatusOutcome(status) ==
    IF session_status = status
    THEN [sessions |-> sessions, kx_store |-> kx_store, invalidated |-> invalidated,
          session_status |-> session_status, note |-> "same"]
    ELSE [sessions |->
              DiscardPrev(
                  ShiftSessions(sessions, session_status.current_index,
                                status.current_index),
                  status.phase),
          kx_store |->
              discard_sessions_before(
                  kx_store,
                  RelAdd(min_needed_rel_session_index(status.phase),
                         status.current_index)),
          invalidated |-> StatusInvalidated(invalidated),
          session_status |-> status,
          note |-> IF status.current_index = session_status.current_index THEN "phase"
                   ELSE IF status.current_index = session_status.current_index + 1
                   THEN "advanced"
                   ELSE "jumped"]

\* Keys of the sessions held in old and no longer held in new.
HeldKeys(ss) == {Slot(ss, rel).session.kx : rel \in {r \in RelSessionIndex : is_full(Slot(ss, r))}}

DroppedKeys(old, new) == HeldKeys(old) \ HeldKeys(new)

set_session_status(status) ==
    LET out == StatusOutcome(status)
    IN  /\ sessions' = out.sessions
        /\ kx_store' = out.kx_store
        /\ invalidated' = out.invalidated
        /\ session_status' = out.session_status
        /\ last' = Call("set_session_status", out.note)
        /\ discarded' = discarded \cup DroppedKeys(sessions, out.sessions)
        /\ UNCHANGED <<config, forward_packet_queue, surb_keystore, fragment_assembler,
                       now, last_popped, inserted_earlier, deadline_at_take, accepted>>

(***************************************************************************)
(* maybe_set_mixnodes                                                      *)
(***************************************************************************)
\* What a producer closure can return: Err, or Ok(mixnodes) described by
\* how many there are and whether the local node's key-exchange public is
\* among them (Topology::is_mixnode).
Produced ==
    {[ok |-> FALSE, n |-> 0, local |-> FALSE]}
        \cup [ok : {TRUE}, n : (MinMixnodes - 1) .. MinMixnodes, local : BOOLEAN]

\* Session { topology, authored_packet_queue, replay_filter }.  kx names the
\* local key-exchange key the topology was built with; forwarded is a record
\* (not program state) of the packets this session queued for forwarding.
NewSession(mixnodes, kx) ==
    [topology |-> [is_mixnode |-> mixnodes.local, n |-> mixnodes.n],
     kx |-> kx,
     authored_packet_queue |-> << >>,
     replay_filter |-> {},
     forwarded |-> {}]

\* The slot maybe_set_mixnodes writes once the producer has returned Ok(mixnodes).
BuildSlot(mixnodes, session_index) ==
    IF mixnodes.n < MinMixnodes THEN Disabled
    ELSE IF ~has_public_for_session(kx_store, session_index) THEN Disabled
    ELSE IF ~mixnodes.local /\ ~config.non_mixnode_session THEN Disabled
    ELSE Full(NewSession(mixnodes,
                         public_for_session(kx_store, session_index).secret[session_index]))

\* Mutant: only a Full slot is left alone, a Disabled one is populated.
SkipsSlot_only_full(slot) == is_full(slot)

\* if !session.is_empty() { return Ok(()) }
SkipsSlot(slot) == ~is_empty(slot)

\* self.invalidated |= RESERVED_PEERS | NEXT_AUTHORED_PACKET_DEADLINE
MixnodesInvalidated(inv) == inv \cup {RESERVED_PEERS, NEXT_AUTHORED_PACKET_DEADLINE}

\* The state maybe_set_mixnodes(rel, produced) leaves behind, and its result.
MixnodesOutcome(rel, produced) ==
    LET session_index == RelAdd(rel, session_status.current_index)
        slot == BuildSlot(produced, session_index)
        keyed == /\ produced.n >= MinMixnodes
                 /\ has_public_for_session(kx_store, session_index)
    IN  IF SkipsSlot(Slot(sessions, rel))
        THEN [sessions |-> sessions, kx_store |-> kx_store, invalidated |-> invalidated,
              produces |-> FALSE, ret |-> "Ok", note |-> "not_empty"]
        ELSE IF ~produced.ok
        THEN [sessions |-> sessions, kx_store |-> kx_store, invalidated |-> invalidated,
              produces |-> TRUE, ret |-> "Err", note |-> "producer_failed"]
        ELSE [sessions |-> SetSlot(sessions, rel, slot),
              kx_store |-> IF keyed THEN public_for_session(kx_store, session_index)
                           ELSE kx_store,
              invalidated |-> IF is_full(slot) THEN MixnodesInvalidated(invalidated)
                              ELSE invalidated,
              produces |-> TRUE, ret |-> "Ok", note |-> slot.tag]

maybe_set_mixnodes(rel, produced) ==
    LET out == MixnodesOutcome(rel, produced)
    IN  /\ out.kx_store.generated <= MaxKeys
        /\ sessions' = out.sessions
        /\ kx_store' = out.kx_store
        /\ invalidated' = out.invalidated
        /\ last' = Call("maybe_set_mixnodes", out.note)
        /\ UNCHANGED <<config, session_status, forward_packet_queue, surb_keystore,
                       fragment_assembler, now, history>>

(***************************************************************************)
(* take_invalidated                                                        *)
(***************************************************************************)
\* Mutant: the flags are returned but not cleared.
TakeCleared_keep(inv) == inv

\* self.invalidated = Invalidated::empty()
TakeCleared(inv) == {}

\* let invalidated = self.invalidated; ...; invalidated
TakeReturned(inv) == inv

take_invalidated ==
    /\ invalidated' = TakeCleared(invalidated)
    /\ last' = Call("take_invalidated",
                    IF TakeReturned(invalidated) = {} THEN "nothing" ELSE "flags")
    /\ deadline_at_take' = next_deadline(forward_packet_queue)
    /\ UNCHANGED <<config, session_status, kx_store, sessions, forward_packet_queue,
                   surb_keystore, fragment_assembler, now, discarded, last_popped,
                   inserted_earlier, accepted>>

(***************************************************************************)
(* Packets.  kx is the packet's key-exchange public key (it stands for the *)
(* packet's bytes), key the secret its outer layer was built for, action   *)
(* what peeling with that secret yields.                                   *)
(***************************************************************************)
Pkt(kx, key, action) == [kx |-> kx, key |-> key, action |-> action]

ForwardTo(target, delay) == [kind |-> "ForwardTo", target |-> target, delay |-> delay]
DeliverRequest(frag) == [kind |-> "DeliverRequest", frag |-> frag]
DeliverReply(surb_id, payload_ok, frag) ==
    [kind |-> "DeliverReply", surb_id |-> surb_id, payload_ok |-> payload_ok, frag |-> frag]
DeliverCover == [kind |-> "DeliverCover"]
\* peel fails with an error other than PeelErr::Mac
Malformed == [kind |-> "Malformed"]

Frag(id, index, count) == [id |-> id, index |-> index, count |-> count]

NoMessage == [kind |-> "None"]

(***************************************************************************)
(* fragment.rs: FragmentAssembler::insert.  The assembler holds the        *)
(* fragments of incomplete messages, keyed by message id and index; via    *)
(* records the kind of action each fragment arrived through.               *)
(***************************************************************************)
Held(asm, id) == {f \in asm : f.id = id}

AssemblerCompletes(asm, frag) ==
    /\ frag.count <= MaxFragmentsPerMessage
    /\ frag.index <= frag.count
    /\ \A i \in 1 .. frag.count :
           i = frag.index \/ \E f \in Held(asm, frag.id) : f.index = i /\ f.count = frag.count

AssemblerInsert(asm, frag, via) ==
    IF frag.count > MaxFragmentsPerMessage \/ frag.index > frag.count THEN asm
    ELSE IF AssemblerCompletes(asm, frag) THEN asm \ Held(asm, frag.id)
    ELSE {f \in asm : ~(f.id = frag.id /\ (f.index = frag.index \/ f.count # frag.count))}
             \cup {[id |-> frag.id, index |-> frag.index, count |-> frag.count, via |-> via]}

AssembledVias(asm, frag, via) ==
    {f.via : f \in {g \in Held(asm, frag.id) : g.index # frag.index}} \cup {via}

(***************************************************************************)
(* handle_packet                                                           *)
(***************************************************************************)
\* session.replay_filter.contains(kx_public(packet))
InReplayFilter(session, p) == p.kx \in session.replay_filter

\* Mutant: the packet is not recorded in the replay filter.
ReplayInsert_skip(session, p) == session

\* session.replay_filter.insert(kx_public(packet))
ReplayInsert(session, p) == [session EXCEPT !.replay_filter = @ \cup {p.kx}]

\* One iteration of the find_map closure: "replay" and "error" end the search
\* with an error, "next" tries the other session, "ok" yields the action.
TryPeel(rel, p) ==
    LET session == Slot(sessions, rel).session
        secret == session_exchange(kx_store, RelAdd(rel, session_status.current_index))
    IN  IF InReplayFilter(session, p) THEN "replay"
        ELSE IF secret = 0 THEN "next"
        ELSE IF p.key # secret THEN "next"
        ELSE IF p.action.kind = "Malformed" THEN "error"
        ELSE "ok"

\* Mutant: only the current session is tried.
PeelSessions_current_only(p) ==
    [res |-> IF is_full(sessions.current) THEN TryPeel(Current, p) ELSE "next",
     rel |-> Current]

\* self.sessions.enumerate_mut().find_map(..): current first, then previous.
PeelSessions(p) ==
    LET c == IF is_full(sessions.current) THEN TryPeel(Current, p) ELSE "next"
        v == IF is_full(sessions.prev) THEN TryPeel(Prev, p) ELSE "next"
    IN  IF c # "next" THEN [res |-> c, rel |-> Current] ELSE [res |-> v, rel |-> Prev]

\* session.topology.target_to_peer_id(&target)
target_to_peer_id_ok(topology, target) == target < topology.n

\* Mutant: an insertion at the head of the queue raises no flag.
ForwardInvalidated_never(inv, changed) == inv

\* if self.forward_packet_queue.insert(..) { self.invalidated |= NEXT_FORWARD_PACKET_DEADLINE }
ForwardInvalidated(inv, changed) ==
    IF changed THEN inv \cup {NEXT_FORWARD_PACKET_DEADLINE} ELSE inv

\* Mutant: the node forwards and serves requests in every session.
NotMixnode_never(session) == FALSE

\* !session.topology.is_mixnode()
NotMixnode(session) == ~session.topology.is_mixnode

\* Mutant: the forward queue never reports itself full.
ForwardQueueFull_never(queue) == FALSE

\* self.forward_packet_queue.remaining_capacity() == 0
ForwardQueueFull(queue) == remaining_capacity(queue, ForwardQueueCapacity) = 0

\* Mutant: the peeled packet is not put into the forward queue.
ForwardEnqueue_drop(queue, entry) == queue

\* self.forward_packet_queue.insert(forward_packet)
ForwardEnqueue(queue, entry) == ForwardInsert(queue, entry)

Outcome(ss, fq, sk, fa, inv, ret, note) ==
    [sessions |-> ss, forward_packet_queue |-> fq, surb_keystore |-> sk,
     fragment_assembler |-> fa, invalidated |-> inv, ret |-> ret, note |-> note]

Dropped(note) ==
    Outcome(sessions, forward_packet_queue, surb_keystore, fragment_assembler,
            invalidated, NoMessage, note)

\* Action::ForwardTo { target, delay }
HandleForward(p, rel, t) ==
    LET session == Slot(sessions, rel).session
        seen == ReplayInsert(session, p)
        entry == [deadline |-> t + p.action.delay, kx |-> p.kx,
                  peer_id |-> p.action.target]
    IN  IF NotMixnode(session) THEN Dropped("not_mixnode")
        ELSE IF ForwardQueueFull(forward_packet_queue) THEN Dropped("queue_full")
        ELSE IF target_to_peer_id_ok(session.topology, p.action.target)
        THEN Outcome(SetSlot(sessions, rel,
                             Full([seen EXCEPT !.forwarded = @ \cup {p}])),
                     ForwardEnqueue(forward_packet_queue, entry),
                     surb_keystore, fragment_assembler,
                     ForwardInvalidated(invalidated,
                                        HeadChanged(forward_packet_queue, entry)),
                     NoMessage, "forwarded")
        ELSE Outcome(SetSlot(sessions, rel, Full(seen)), forward_packet_queue,
                     surb_keystore, fragment_assembler, invalidated,
                     NoMessage, "bad_target")

\* Action::DeliverRequest
HandleRequest(p, rel) ==
    LET session == Slot(sessions, rel).session
        frag == p.action.frag
    IN  IF NotMixnode(session) THEN Dropped("not_mixnode")
        ELSE Outcome(SetSlot(sessions, rel, Full(ReplayInsert(session, p))),
                     forward_packet_queue, surb_keystore,
                     AssemblerInsert(fragment_assembler, frag, "request"),
                     invalidated,
                     IF AssemblerCompletes(fragment_assembler, frag)
                     THEN [kind |-> "Request",
                           session_index |-> RelAdd(rel, session_status.current_index),
                           id |-> frag.id,
                           vias |-> AssembledVias(fragment_assembler, frag, "request")]
                     ELSE NoMessage,
                     "request")

SurbKnown(sk, surb_id) == \E i \in 1 .. Len(sk.entries) : sk.entries[i] = surb_id

\* Mutant: the entry stays in the keystore after use.
SurbRemove_keep(sk, surb_id) == sk

\* entry.remove()
SurbRemove(sk, surb_id) ==
    [sk EXCEPT !.entries = SelectSeq(@, LAMBDA e : e # surb_id)]

\* Action::DeliverReply { surb_id }
HandleReply(p) ==
    LET frag == p.action.frag
        removed == SurbRemove(surb_keystore, p.action.surb_id)
    IN  IF ~SurbKnown(surb_keystore, p.action.surb_id) THEN Dropped("unknown_surb")
        ELSE IF ~p.action.payload_ok
        THEN Outcome(sessions, forward_packet_queue, removed, fragment_assembler,
                     invalidated, NoMessage, "decrypt_failed")
        ELSE Outcome(sessions, forward_packet_queue, removed,
                     AssemblerInsert(fragment_assembler, frag, "reply"),
                     invalidated,
                     IF AssemblerCompletes(fragment_assembler, frag)
                     THEN [kind |-> "Reply", id |-> frag.id,
                           vias |-> AssembledVias(fragment_assembler, frag, "reply")]
                     ELSE NoMessage,
                     "reply")

\* t is the reading of Instant::now() the ForwardTo branch takes.
HandleOutcome(p, t) ==
    LET peeled == PeelSessions(p)
    IN  IF peeled.res = "next" THEN Dropped("no_peel")
        ELSE IF peeled.res = "replay" THEN Dropped("replay")
        ELSE IF peeled.res = "error" THEN Dropped("peel_error")
        ELSE IF p.action.kind = "ForwardTo" THEN HandleForward(p, peeled.rel, t)
        ELSE IF p.action.kind = "DeliverRequest" THEN HandleRequest(p, peeled.rel)
        ELSE IF p.action.kind = "DeliverReply" THEN HandleReply(p)
        ELSE Dropped("cover")

handle_packet(p, t) ==
    LET out == HandleOutcome(p, t)
    IN  /\ t >= now
        /\ out.note \in {"forwarded", "bad_target"} \/ t = now
        /\ now' = t
        /\ sessions' = out.sessions
        /\ forward_packet_queue' = out.forward_packet_queue
        /\ surb_keystore' = out.surb_keystore
        /\ fragment_assembler' = out.fragment_assembler
        /\ invalidated' = out.invalidated
        /\ last' = Call("handle_packet", out.note)
        /\ inserted_earlier' =
               (inserted_earlier \/ (out.note = "forwarded" /\ t + p.action.delay < last_popped))
        /\ accepted' = IF out.note \in {"forwarded", "request"} THEN accepted \cup {p}
                       ELSE accepted
        /\ UNCHANGED <<config, session_status, kx_store, discarded, last_popped,
                       deadline_at_take>>

(***************************************************************************)
(* next_forward_packet_deadline, pop_next_forward_packet                   *)
(***************************************************************************)
next_forward_packet_deadline == next_deadline(forward_packet_queue)

\* self.invalidated |= Invalidated::NEXT_FORWARD_PACKET_DEADLINE
PopInvalidated(inv) == inv \cup {NEXT_FORWARD_PACKET_DEADLINE}

NoPacket == [kind |-> "None"]

\* The packet pop_next_forward_packet returns when the heap yields position i.
Popped(queue, i) ==
    [kind |-> "Forward", kx |-> queue[i].kx, peer_id |-> queue[i].peer_id,
     deadline |-> queue[i].deadline]

\* Mutant: the pop takes a packet from anywhere in the queue.
PopForward_any(queue) == AnyPosition(queue)

\* self.forward_packet_queue.pop(): the heap yields a packet of least deadline.
PopForward(queue) == PopPositions(queue)

pop_next_forward_packet ==
    /\ invalidated' = PopInvalidated(invalidated)
    /\ IF Len(forward_packet_queue) = 0
       THEN /\ forward_packet_queue' = forward_packet_queue
            /\ last' = Call("pop_next_forward_packet", "empty")
            /\ UNCHANGED <<last_popped, inserted_earlier>>
       ELSE \E i \in PopForward(forward_packet_queue) :
                /\ forward_packet_queue' = RemoveAt(forward_packet_queue, i)
                /\ last' = Call("pop_next_forward_packet", "popped")
                /\ last_popped' = Popped(forward_packet_queue, i).deadline
                /\ inserted_earlier' = FALSE
    /\ UNCHANGED <<config, session_status, kx_store, sessions, surb_keystore,
                   fragment_assembler, now, discarded, deadline_at_take, accepted>>

(***************************************************************************)
(* post_session, post_request, post_reply                                  *)
(***************************************************************************)
PostOk == [ok |-> TRUE, err |-> "Ok", index |-> 0]
PostErr(err, index) == [ok |-> FALSE, err |-> err, index |-> index]

\* The relative index post_session resolves index to ("Bad" when it is neither).
PostRel(status, index) ==
    LET d == wrapping_sub(status.current_index, index)
    IN  IF d = 0 THEN Current ELSE IF d = 1 THEN Prev ELSE "Bad"

\* Mutant: the phase is not asked whether it allows requests and replies.
post_session_no_phase_check(ss, status, index) ==
    LET rel == PostRel(status, index)
    IN  IF rel = "Bad" THEN PostErr("BadSessionIndex", index)
        ELSE IF Slot(ss, rel).tag = "Empty" THEN PostErr("SessionEmpty", index)
        ELSE IF Slot(ss, rel).tag = "Disabled" THEN PostErr("SessionDisabled", index)
        ELSE PostOk

\* post_session: PostOk when it returns Ok(session), the error otherwise.
post_session(ss, status, index) ==
    LET rel == PostRel(status, index)
    IN  IF rel = "Bad" THEN PostErr("BadSessionIndex", index)
        ELSE IF ~allow_requests_and_replies(status.phase, rel)
        THEN PostErr("RequestsAndRepliesBlocked", index)
        ELSE IF Slot(ss, rel).tag = "Empty" THEN PostErr("SessionEmpty", index)
        ELSE IF Slot(ss, rel).tag = "Disabled" THEN PostErr("SessionDisabled", index)
        ELSE PostOk

authored_remaining_capacity(session) ==
    AuthoredQueueCapacity - Len(session.authored_packet_queue)

\* Mutant: the packets are put in front of the packets already queued.
PushFragments_front(ss, rel, id, kind, count) ==
    LET session == Slot(ss, rel).session
        pushed == [k \in 1 .. count |-> [kind |-> kind, id |-> id, index |-> k]]
    IN  SetSlot(ss, rel,
                Full([session EXCEPT !.authored_packet_queue = pushed \o @]))

\* session.authored_packet_queue.push(packet), for the first count fragments.
PushFragments(ss, rel, id, kind, count) ==
    LET session == Slot(ss, rel).session
        pushed == [k \in 1 .. count |-> [kind |-> kind, id |-> id, index |-> k]]
    IN  SetSlot(ss, rel,
                Full([session EXCEPT !.authored_packet_queue = @ \o pushed]))

\* SurbKeystore::insert: a fresh id, the oldest entry evicted when at capacity.
SurbInsert(sk) ==
    LET id == sk.generated + 1
        kept == IF Len(sk.entries) >= SurbKeystoreCapacity THEN Tail(sk.entries)
                ELSE sk.entries
    IN  [entries |-> Append(kept, id), generated |-> id]

MessageIds == 1 .. MaxMessageId

Destinations ==
    {[some |-> FALSE, session_index |-> 0]}
        \cup [some : {TRUE}, session_index : SessionIndex]

\* How building can fail with a TopologyErr: not at all (frag 0, "none"), in
\* RequestBuilder::new (frag 0, "builder"), or in build_packet for fragment
\* frag, either before its payload is written ("route") or in build_surb
\* after the SURB's keystore entry was inserted ("surb").
BuildFailures(blueprints, surb_frag) ==
    {[frag |-> 0, stage |-> "none"], [frag |-> 0, stage |-> "builder"]}
        \cup [frag : 1 .. blueprints, stage : {"route"}]
        \cup {[frag |-> k, stage |-> "surb"] : k \in {surb_frag} \ {0}}

\* Fragments pushed before the loop ends.
RequestPushed(blueprints, fail) ==
    IF fail.stage = "none" THEN blueprints
    ELSE IF fail.stage = "builder" THEN 0
    ELSE fail.frag - 1

\* Mutant: the keystore entry is kept only when the whole call succeeds.
RequestInsertsSurb_rolled_back(surb_frag, fail) ==
    surb_frag # 0 /\ fail.stage = "none"

\* Whether the call reaches self.surb_keystore.insert for the SURB of surb_frag.
RequestInsertsSurb(surb_frag, fail) ==
    /\ surb_frag # 0
    /\ \/ fail.stage = "none"
       \/ fail.stage = "route" /\ fail.frag > surb_frag
       \/ fail.stage = "surb"

\* The session index post_request resolves its destination to.
RequestSessionIndex(dest) ==
    IF dest.some THEN dest.session_index
    ELSE RelAdd(default_request_session(session_status.phase),
                session_status.current_index)

\* The result of post_request and the state it leaves behind.  blueprints = 0
\* stands for fragment_blueprints returning None; surb_frag is the fragment
\* that carries the requested SURB (0: no SURB requested).
RequestOutcome(dest, id, blueprints, surb_frag, fail) ==
    LET session_index == RequestSessionIndex(dest)
        resolved == post_session(sessions, session_status, session_index)
        rel == PostRel(session_status, session_index)
        too_many == blueprints = 0 \/ blueprints > MaxFragmentsPerMessage
        no_space == blueprints > authored_remaining_capacity(Slot(sessions, rel).session)
        built == ~too_many /\ resolved.ok /\ ~no_space
        inserts == built /\ RequestInsertsSurb(surb_frag, fail)
    IN  [sessions |-> IF built
                      THEN PushFragments(sessions, rel, id, "request",
                                         RequestPushed(blueprints, fail))
                      ELSE sessions,
         surb_keystore |-> IF inserts THEN SurbInsert(surb_keystore) ELSE surb_keystore,
         ret |-> IF too_many THEN PostErr("TooManyFragments", 0)
                 ELSE IF ~resolved.ok THEN resolved
                 ELSE IF no_space THEN PostErr("NotEnoughSpaceInQueue", 0)
                 ELSE IF fail.stage # "none" THEN PostErr("Topology", 0)
                 ELSE PostOk]

post_request(dest, id, blueprints, surb_frag, fail) ==
    LET out == RequestOutcome(dest, id, blueprints, surb_frag, fail)
    IN  /\ out.surb_keystore.generated <= MaxSurbIds
        /\ sessions' = out.sessions
        /\ surb_keystore' = out.surb_keystore
        /\ last' = Call("post_request", out.ret.err)
        /\ UNCHANGED <<config, session_status, kx_store, forward_packet_queue,
                       fragment_assembler, invalidated, now, history>>

\* A SURB is "good", "bad" (complete_reply_packet returns None) or
\* "bad_index" (its first-hop mixnode index has no peer id in the topology).
Surbs == {"good", "bad", "bad_index"}

SurbLists == UNION {[1 .. n -> Surbs] : n \in 0 .. MaxFragmentsPerMessage}

\* The surb popped for fragment k: surbs.pop() takes from the tail.
PoppedSurb(surbs, k) == surbs[Len(surbs) - k + 1]

\* The first fragment whose SURB fails (0: none does).
FirstBadSurb(surbs, blueprints) ==
    LET bad == {k \in 1 .. blueprints : PoppedSurb(surbs, k) # "good"}
    IN  IF bad = {} THEN 0 ELSE CHOOSE k \in bad : \A j \in bad : k <= j

Min(a, b) == IF a <= b THEN a ELSE b

\* Fragments pushed before the loop ends.
ReplyPushed(surbs, blueprints) ==
    LET bad == FirstBadSurb(surbs, blueprints)
    IN  IF bad = 0 THEN blueprints ELSE bad - 1

\* SURBs popped before the loop ends.
ReplyPopped(surbs, blueprints) ==
    LET bad == FirstBadSurb(surbs, blueprints)
    IN  IF bad = 0 THEN blueprints ELSE bad

\* The result of post_reply, the state and the SURB list it leaves behind.
ReplyOutcome(surbs, session_index, id, blueprints) ==
    LET resolved == post_session(sessions, session_status, session_index)
        rel == PostRel(session_status, session_index)
        too_many == blueprints = 0
                        \/ blueprints > Min(MaxFragmentsPerMessage, Len(surbs))
        no_space == blueprints > authored_remaining_capacity(Slot(sessions, rel).session)
        built == ~too_many /\ resolved.ok /\ ~no_space
        bad == FirstBadSurb(surbs, blueprints)
    IN  [sessions |-> IF built
                      THEN PushFragments(sessions, rel, id, "reply",
                                         ReplyPushed(surbs, blueprints))
                      ELSE sessions,
         surbs |-> IF built
                   THEN SubSeq(surbs, 1, Len(surbs) - ReplyPopped(surbs, blueprints))
                   ELSE surbs,
         ret |-> IF too_many THEN PostErr("TooManyFragments", 0)
                 ELSE IF ~resolved.ok THEN resolved
                 ELSE IF no_space THEN PostErr("NotEnoughSpaceInQueue", 0)
                 ELSE IF bad = 0 THEN PostOk
                 ELSE IF PoppedSurb(surbs, bad) = "bad" THEN PostErr("BadSurb", 0)
                 ELSE PostErr("Topology", 0)]

post_reply(surbs, session_index, id, blueprints) ==
    LET out == ReplyOutcome(surbs, session_index, id, blueprints)
    IN  /\ sessions' = out.sessions
        /\ last' = Call("post_reply", out.ret.err)
        /\ UNCHANGED <<config, session_status, kx_store, forward_packet_queue,
                       surb_keystore, fragment_assembler, invalidated, now, history>>

(***************************************************************************)
(* pop_next_authored_packet                                                *)
(***************************************************************************)
\* Full sessions for which the phase generates cover packets, current first.
ActiveSessions ==
    SelectSeq(<<Current, Prev>>,
              LAMBDA rel : /\ is_full(Slot(sessions, rel))
                           /\ gen_cover_packets(session_status.phase, rel))

\* Mutant: cover packets are generated whatever the configuration says.
gen_cover_packet_always(kind, routed) ==
    IF ~routed THEN NoPacket ELSE [kind |-> "Cover", cover |-> kind]

\* cover.rs gen_cover_packet: None when cover packets are disabled or no
\* route can be generated (routed is the route generator's outcome).
gen_cover_packet(kind, routed) ==
    IF ~config.gen_cover_packets THEN NoPacket
    ELSE IF ~routed THEN NoPacket
    ELSE [kind |-> "Cover", cover |-> kind]

\* Mutant: the phase is not asked whether requests and replies may go out.
MayPop_ignores_phase(phase, rel, loop) == ~loop

\* The branch that reaches session.authored_packet_queue.pop(): not the loop
\* cover branch, and phase.allow_requests_and_replies(rel_session_index).
MayPop(phase, rel, loop) == ~loop /\ allow_requests_and_replies(phase, rel)

\* The result of pop_next_authored_packet and the state it leaves behind.
\* first picks between two active sessions (rng.gen_bool on their rates),
\* loop is rng.gen_bool(loop_cover_proportion).
AuthoredOutcome(first, loop, routed) ==
    LET active == ActiveSessions
        rel == IF Len(active) = 2 THEN (IF first THEN active[1] ELSE active[2])
               ELSE active[1]
        session == Slot(sessions, rel).session
        pops == /\ MayPop(session_status.phase, rel, loop)
                /\ Len(session.authored_packet_queue) > 0
    IN  IF Len(active) = 0
        THEN [sessions |-> sessions, invalidated |-> invalidated, ret |-> NoPacket,
              note |-> "no_session"]
        ELSE [sessions |->
                  IF pops
                  THEN SetSlot(sessions, rel,
                               Full([session EXCEPT !.authored_packet_queue = Tail(@)]))
                  ELSE sessions,
              invalidated |-> invalidated \cup {NEXT_AUTHORED_PACKET_DEADLINE},
              ret |-> IF loop THEN gen_cover_packet("Loop", routed)
                      ELSE IF pops THEN Head(session.authored_packet_queue)
                      ELSE gen_cover_packet("Drop", routed),
              note |-> IF loop THEN "loop" ELSE IF pops THEN "authored" ELSE "drop"]

pop_next_authored_packet(first, loop, routed) ==
    LET out == AuthoredOutcome(first, loop, routed)
    IN  /\ sessions' = out.sessions
        /\ invalidated' = out.invalidated
        /\ last' = Call("pop_next_authored_packet", out.note)
        /\ UNCHANGED <<config, session_status, kx_store, forward_packet_queue,
                       surb_keystore, fragment_assembler, now, history>>

(***************************************************************************)
(* Specifications.  One step is one call of a public method on an input    *)
(* drawn from the sets of U.                                               *)
(***************************************************************************)
Step(U) ==
    \/ \E status \in U.statuses : set_session_status(status)
    \/ \E rel \in RelSessionIndex, produced \in U.produced :
           maybe_set_mixnodes(rel, produced)
    \/ \E p \in U.packets, t \in U.clock : handle_packet(p, t)
    \/ pop_next_forward_packet
    \/ \E first \in BOOLEAN, loop \in BOOLEAN, routed \in BOOLEAN :
           pop_next_authored_packet(first, loop, routed)
    \/ \E dest \in U.dests, id \in MessageIds, blueprints \in U.blueprints :
           \E surb_frag \in 0 .. Min(blueprints, U.surbs) :
               \E fail \in BuildFailures(blueprints, surb_frag) :
                   post_request(dest, id, blueprints, surb_frag, fail)
    \/ \E surbs \in U.surblists, index \in U.reply_indices, id \in MessageIds,
          blueprints \in U.blueprints :
           post_reply(surbs, index, id, blueprints)
    \/ take_invalidated

Init == \E cfg \in Configs : MixnetNew(cfg)

NoDestination == [some |-> FALSE, session_index |-> 0]

(* Session rotation: every index, phases that need and do not need the     *)
(* previous session, a packet for each key; posts are all rejected.        *)
SessionsUniverse ==
    [statuses |-> [current_index : ReportedIndex,
                   phase : {"CoverToCurrent", "DisconnectFromPrev"}],
     produced |-> {m \in Produced : m.ok /\ m.local},
     packets |-> {Pkt(1, 1, DeliverRequest(Frag(1, 1, 1))),
                  Pkt(2, 2, DeliverRequest(Frag(1, 1, 1)))},
     clock |-> {0},
     dests |-> {NoDestination},
     blueprints |-> {0},
     surbs |-> 0,
     surblists |-> {<< >>},
     reply_indices |-> {0}]

Start == MixnetNew([gen_cover_packets |-> TRUE, non_mixnode_session |-> TRUE])

NextSessions == Step(SessionsUniverse)

SpecSessions == Start /\ [][NextSessions]_vars

(* Forwarding: packets for two keys with every delay, one with a target the *)
(* topology does not know, a clock that advances; posts are all rejected.   *)
ForwardUniverse ==
    [statuses |-> {[current_index |-> 1, phase |-> "CoverToCurrent"]},
     produced |-> {m \in Produced : m.ok /\ m.local /\ m.n = MinMixnodes},
     packets |-> {Pkt(1, 1, ForwardTo(0, 0)),
                  Pkt(2, 1, ForwardTo(0, MaxDelay)),
                  Pkt(3, 2, ForwardTo(0, 0)),
                  Pkt(4, 1, ForwardTo(MinMixnodes, 0))},
     clock |-> 0 .. MaxNow,
     dests |-> {NoDestination},
     blueprints |-> {0},
     surbs |-> 0,
     surblists |-> {<< >>},
     reply_indices |-> {0}]

NextForward == Step(ForwardUniverse)

SpecForward == Start /\ [][NextForward]_vars

(* Posting: destinations and session indices in and out of range, phases   *)
(* that allow and block requests and replies on the current session,       *)
(* producers that give too few mixnodes, SURB lists with a bad SURB, every  *)
(* point of failure while building.                                        *)
PostUniverse ==
    [statuses |-> [current_index : {1},
                   phase : {"CoverToCurrent", "RequestsAndRepliesToCurrent"}],
     produced |-> {m \in Produced : m.ok /\ m.local},
     packets |-> {Pkt(1, 1, DeliverCover)},
     clock |-> {0},
     dests |-> {NoDestination},
     blueprints |-> 1 .. MaxFragmentsPerMessage,
     surbs |-> MaxSurbIds,
     surblists |-> {<<"bad", "good">>},
     reply_indices |-> 0 .. 1]

NextPost == Step(PostUniverse)

SpecPost == Start /\ [][NextPost]_vars

(* Inbound handling: sessions in which the node is and is not a mixnode, a  *)
(* packet of every action for the first key, a packet for the second key    *)
(* that shares its key-exchange public with one for the first, replies that *)
(* decrypt and that do not; requests ask for a SURB.                         *)
InboundUniverse ==
    [statuses |-> {[current_index |-> 1, phase |-> "RequestsAndRepliesToCurrent"]},
     produced |-> {m \in Produced : m.ok /\ m.n = MinMixnodes},
     packets |-> {Pkt(1, 1, ForwardTo(0, 0)),
                  Pkt(1, 2, DeliverRequest(Frag(1, 1, 1))),
                  Pkt(2, 1, DeliverRequest(Frag(1, 1, 1))),
                  Pkt(3, 1, DeliverReply(1, TRUE, Frag(1, 1, 1))),
                  Pkt(3, 1, DeliverReply(1, FALSE, Frag(1, 1, 1))),
                  Pkt(3, 2, DeliverCover)},
     clock |-> {0},
     dests |-> {NoDestination},
     blueprints |-> {1},
     surbs |-> MaxSurbIds,
     surblists |-> {<< >>},
     reply_indices |-> {0}]

NextInbound == Step(InboundUniverse)

SpecInbound == Start /\ [][NextInbound]_vars

(* Cover traffic: every configuration and every phase under one session     *)
(* index; requests of one fragment fill the authored queues.                *)
CoverUniverse ==
    [statuses |-> [current_index : {1}, phase : SessionPhase],
     produced |-> {m \in Produced : m.ok /\ m.local /\ m.n = MinMixnodes},
     packets |-> {Pkt(1, 1, DeliverCover)},
     clock |-> {0},
     dests |-> {NoDestination},
     blueprints |-> {1},
     surbs |-> 0,
     surblists |-> {<< >>},
     reply_indices |-> {0}]

NextCover == Step(CoverUniverse)

SpecCover == Init /\ [][NextCover]_vars

(* Reassembly: the two fragments of one message id, each as a request       *)
(* fragment and as a reply fragment; requests ask for a SURB so that        *)
(* replies are let in.                                                      *)
AssemblyUniverse ==
    [statuses |-> {[current_index |-> 1, phase |-> "RequestsAndRepliesToCurrent"]},
     produced |-> {m \in Produced : m.ok /\ m.local /\ m.n = MinMixnodes},
     packets |-> {Pkt(1, 1, DeliverRequest(Frag(1, 1, 2))),
                  Pkt(2, 1, DeliverRequest(Frag(1, 2, 2))),
                  Pkt(3, 1, DeliverReply(1, TRUE, Frag(1, 1, 2))),
                  Pkt(4, 1, DeliverReply(1, TRUE, Frag(1, 2, 2)))},
     clock |-> {0},
     dests |-> {NoDestination},
     blueprints |-> {1},
     surbs |-> MaxSurbIds,
     surblists |-> {<< >>},
     reply_indices |-> {0}]

NextAssembly == Step(AssemblyUniverse)

SpecAssembly == Start /\ [][NextAssembly]_vars

(***************************************************************************)
(* Claims checked under SpecSessions.                                      *)
(***************************************************************************)
Advances(status) == status.current_index = session_status.current_index + 1

Jumps(status) ==
    /\ status.current_index # session_status.current_index
    /\ ~Advances(status)

\* C2 as the specification states it: on an index advance by exactly one the
\* old current slot becomes the previous slot and the current slot becomes
\* Empty; on any other change of index both slots become Empty.
C2_RotationAsStated ==
    \A status \in SessionStatus :
        LET out == StatusOutcome(status)
        IN  /\ Advances(status) =>
                out.sessions = [current |-> Empty, prev |-> sessions.current]
            /\ Jumps(status) =>
                out.sessions = [current |-> Empty, prev |-> Empty]

\* C2 amended: set_session_status leaves the current slot Empty whenever the
\* index changes; the previous slot is then the old current slot on an advance
\* by exactly one and Empty on any other change of index, except that it is
\* Disabled whenever the new phase does not need the previous session.
C2_Rotation ==
    \A status \in SessionStatus :
        LET out == StatusOutcome(status)
        IN  /\ Advances(status) =>
                out.sessions = [current |-> Empty,
                                prev |-> IF need_prev(status.phase) THEN sessions.current
                                         ELSE Disabled]
            /\ Jumps(status) =>
                out.sessions = [current |-> Empty,
                                prev |-> IF need_prev(status.phase) THEN Empty
                                         ELSE Disabled]

\* A Full session with a packet in its replay filter has just been rotated
\* into the previous slot.
C2_Witness ==
    /\ last = Call("set_session_status", "advanced")
    /\ is_empty(sessions.current)
    /\ is_full(sessions.prev)
    /\ sessions.prev.session.replay_filter # {}

Accepted == {"forwarded", "bad_target", "request"}

\* C3 as the specification states it: a packet built for a session's key is
\* only peeled by the slot holding that session, and once that session has
\* been discarded handle_packet returns None for the packet and inserts
\* nothing into the replay filter of any held session.
C3_SessionIsolation ==
    \A p \in SessionsUniverse.packets :
        LET out == HandleOutcome(p, now)
        IN  /\ out.note \in Accepted =>
                Slot(sessions, PeelSessions(p).rel).session.kx = p.key
            /\ p.key \in discarded =>
                /\ out.ret = NoMessage
                /\ out.sessions = sessions

\* C8: a set_session_status call that changes the stored status raises
\* RESERVED_PEERS and NEXT_AUTHORED_PACKET_DEADLINE, no call other than
\* take_invalidated clears a raised flag, and take_invalidated returns the
\* flags that are raised; so the next take_invalidated returns both.
C8_StatusChangeInvalidates ==
    /\ [][/\ (last'.op = "set_session_status" /\ session_status' # session_status) =>
                {RESERVED_PEERS, NEXT_AUTHORED_PACKET_DEADLINE} \subseteq invalidated'
          /\ last'.op # "take_invalidated" => invalidated \subseteq invalidated']_vars
    /\ [](invalidated \subseteq TakeReturned(invalidated))

\* A status change has raised both flags and they have not been taken yet.
C8_Witness ==
    /\ last.op = "set_session_status"
    /\ last.note # "same"
    /\ {RESERVED_PEERS, NEXT_AUTHORED_PACKET_DEADLINE} \subseteq invalidated

\* C10: take_invalidated returns exactly the flags raised since the previous
\* take (every other call only adds flags to the set, which the previous take
\* left empty), leaves the flag set empty and changes nothing else of the
\* engine.
C10_TakeInvalidatedReadAndClear ==
    /\ [][IF last'.op = "take_invalidated"
          THEN /\ invalidated' = {}
               /\ UNCHANGED <<config, session_status, kx_store, sessions,
                              forward_packet_queue, surb_keystore, fragment_assembler>>
          ELSE invalidated \subseteq invalidated']_vars
    /\ [](TakeReturned(invalidated) = invalidated)

\* take_invalidated has just returned raised flags and left none.
C10_Witness ==
    /\ last = Call("take_invalidated", "flags")
    /\ invalidated = {}

(***************************************************************************)
(* Claims checked under SpecForward.                                       *)
(***************************************************************************)
NextFlag == NEXT_FORWARD_PACKET_DEADLINE

\* C1: a forward packet that a held Full mixnode session accepted and queued
\* is refused when it is handled again, at whatever time: handle_packet
\* returns None and leaves the forward queue as it is; the accepting call grew
\* the queue by exactly one packet.
C1_ReplayImmunity ==
    /\ [](\A rel \in RelSessionIndex :
              (is_full(Slot(sessions, rel)) /\ Slot(sessions, rel).session.topology.is_mixnode) =>
                  \A p \in Slot(sessions, rel).session.forwarded, t \in now .. MaxNow :
                      /\ HandleOutcome(p, t).ret = NoMessage
                      /\ HandleOutcome(p, t).forward_packet_queue = forward_packet_queue)
    /\ [][last' = Call("handle_packet", "forwarded") =>
              Len(forward_packet_queue') = Len(forward_packet_queue) + 1]_vars

\* A packet has just been refused as a replay while the one packet it put on
\* the forward queue is still there.
C1_Witness ==
    /\ last = Call("handle_packet", "replay")
    /\ Len(forward_packet_queue) = 1
    /\ \E rel \in RelSessionIndex :
           /\ is_full(Slot(sessions, rel))
           /\ \E p \in Slot(sessions, rel).session.forwarded :
                  p.kx = forward_packet_queue[1].kx

\* C7 as the specification states it: over any sequence of calls, successive
\* pop_next_forward_packet calls return packets of non-decreasing deadlines.
C7_MonotoneAsStated == [][last_popped <= last_popped']_vars

PoppedNow == last' = Call("pop_next_forward_packet", "popped")

\* C7 amended: pop_next_forward_packet returns a packet whose deadline is the
\* least in the queue, so successive pops return non-decreasing deadlines as
\* long as no packet due before the last popped one was queued in between.
C7_Monotone ==
    [][PoppedNow =>
           /\ \A i \in 1 .. Len(forward_packet_queue) :
                  last_popped' <= forward_packet_queue[i].deadline
           /\ ~inserted_earlier => last_popped <= last_popped']_vars

\* A pop has returned a packet due later than time 0 and left a packet that
\* is due later still.
C7_Witness ==
    /\ last = Call("pop_next_forward_packet", "popped")
    /\ last_popped > 0
    /\ Len(forward_packet_queue) > 0
    /\ forward_packet_queue[1].deadline > last_popped

\* C9: a call that changes what next_forward_packet_deadline() returns raises
\* NEXT_FORWARD_PACKET_DEADLINE, pop_next_forward_packet raises it on every
\* call, and whenever the flag is clear next_forward_packet_deadline() is what
\* it was at the last take_invalidated (or at construction).
C9_ForwardDeadlineCoherence ==
    /\ [][/\ next_deadline(forward_packet_queue') # next_deadline(forward_packet_queue) =>
                NextFlag \in invalidated'
          /\ last'.op = "pop_next_forward_packet" => NextFlag \in invalidated']_vars
    /\ [](NextFlag \notin invalidated => next_forward_packet_deadline = deadline_at_take)

\* A packet was queued behind the head: the flag stays clear and the deadline
\* the caller took is still the next one.
C9_Witness ==
    /\ last = Call("handle_packet", "forwarded")
    /\ NextFlag \notin invalidated
    /\ Len(forward_packet_queue) > 1
    /\ deadline_at_take = forward_packet_queue[1].deadline

(***************************************************************************)
(* Claims checked under SpecPost.                                          *)
(***************************************************************************)
RequestInputs ==
    {<<dest, id, blueprints, surb_frag, fail>> \in
         Destinations \X MessageIds \X (0 .. (MaxFragmentsPerMessage + 1))
             \X (0 .. MaxFragmentsPerMessage)
             \X [frag : 0 .. MaxFragmentsPerMessage, stage : {"none", "builder", "route", "surb"}] :
         /\ surb_frag <= blueprints
         /\ fail \in BuildFailures(blueprints, surb_frag)}

ReplyInputs ==
    SurbLists \X SessionIndex \X MessageIds \X (0 .. (MaxFragmentsPerMessage + 1))

\* C4 as the specification states it: a post_request call that returns an
\* error leaves the authored queue of every session as it was.
C4_RequestAllOrNothing ==
    \A in \in RequestInputs :
        LET out == RequestOutcome(in[1], in[2], in[3], in[4], in[5])
        IN  ~out.ret.ok => out.sessions = sessions

IsPrefix(a, b) == Len(a) <= Len(b) /\ a = SubSeq(b, 1, Len(a))

\* C5 as the specification states it: a post_reply call that fails with
\* TooManyFragments or BadSurb leaves the authored queues as they were, and
\* leaves of the SURB list a prefix (all of it for TooManyFragments).
C5_ReplyFailureLeavesQueue ==
    \A in \in ReplyInputs :
        LET out == ReplyOutcome(in[1], in[2], in[3], in[4])
        IN  out.ret.err \in {"TooManyFragments", "BadSurb"} =>
                /\ out.sessions = sessions
                /\ IsPrefix(out.surbs, in[1])
                /\ out.ret.err = "TooManyFragments" => out.surbs = in[1]

ReachesQueue == {"Ok", "NotEnoughSpaceInQueue", "Topology", "BadSurb"}

\* What session resolution must answer for index, by the stated precedence.
Resolution(index) ==
    LET delta == wrapping_sub(session_status.current_index, index)
        rel == IF delta = 0 THEN Current ELSE Prev
    IN  IF delta \notin {0, 1} THEN PostErr("BadSessionIndex", index)
        ELSE IF ~allow_requests_and_replies(session_status.phase, rel)
        THEN PostErr("RequestsAndRepliesBlocked", index)
        ELSE IF Slot(sessions, rel) = Empty THEN PostErr("SessionEmpty", index)
        ELSE IF Slot(sessions, rel) = Disabled THEN PostErr("SessionDisabled", index)
        ELSE PostOk

\* C6: a post_request or post_reply call that passes the fragment count check
\* reaches the authored queue only if its session index is the current one or
\* the one before, the phase allows requests and replies on that session and
\* the slot is Full; otherwise it returns BadSessionIndex, else
\* RequestsAndRepliesBlocked, else SessionEmpty or SessionDisabled, and the
\* authored queues stay as they were.
C6_SessionResolution ==
    \A index \in SessionIndex, blueprints \in 1 .. MaxFragmentsPerMessage :
        LET want == Resolution(index)
            dest == [some |-> TRUE, session_index |-> index]
        IN  /\ \A fail \in BuildFailures(blueprints, 0) :
                   LET out == RequestOutcome(dest, 1, blueprints, 0, fail)
                   IN  IF want.ok THEN out.ret.err \in ReachesQueue
                       ELSE out.ret = want /\ out.sessions = sessions
            /\ \A kind \in Surbs :
                   LET surbs == [k \in 1 .. MaxFragmentsPerMessage |-> kind]
                       out == ReplyOutcome(surbs, index, 1, blueprints)
                   IN  IF want.ok THEN out.ret.err \in ReachesQueue
                       ELSE out.ret = want /\ out.sessions = sessions

\* A post was refused as blocked by the phase although both slots are
\* Disabled: the phase check comes before the slot check.
C6_Witness ==
    /\ last \in {Call("post_request", "RequestsAndRepliesBlocked"),
                 Call("post_reply", "RequestsAndRepliesBlocked")}
    /\ sessions.current = Disabled
    /\ sessions.prev = Disabled

(***************************************************************************)
(* Further claims checked under SpecSessions.                              *)
(***************************************************************************)
\* C19: maybe_set_mixnodes on a slot that is Full or Disabled returns Ok
\* without calling the producer and changes neither slot, the key store nor
\* the invalidation flags; and a Disabled slot stays Disabled in every call
\* that does not change the session index.
C19_OnlyEmptySlotPopulated ==
    /\ [](\A rel \in RelSessionIndex, produced \in Produced :
              ~is_empty(Slot(sessions, rel)) =>
                  LET out == MixnodesOutcome(rel, produced)
                  IN  /\ out.ret = "Ok"
                      /\ ~out.produces
                      /\ out.sessions = sessions
                      /\ out.kx_store = kx_store
                      /\ out.invalidated = invalidated)
    /\ [][\A rel \in RelSessionIndex :
              (Slot(sessions, rel) = Disabled /\ Slot(sessions', rel) # Disabled) =>
                  session_status'.current_index # session_status.current_index]_vars

\* maybe_set_mixnodes has just been called on a Disabled slot and left it.
C19_Witness ==
    /\ last = Call("maybe_set_mixnodes", "not_empty")
    /\ \E rel \in RelSessionIndex : Slot(sessions, rel) = Disabled

\* C15 as the specification states it: over any sequence of calls, packet
\* bytes that handle_packet has once queued for forwarding or fed to the
\* fragment assembler as a request fragment are never accepted again.
C15_AcceptedAtMostOnce ==
    \A p \in accepted :
        HandleOutcome(p, now).note \notin {"forwarded", "request"}

\* The replay filter of each slot (empty where there is no session).
ReplayFilters(ss) ==
    [rel \in RelSessionIndex |->
        IF is_full(Slot(ss, rel)) THEN Slot(ss, rel).session.replay_filter ELSE {}]

\* handle_packet(p) at time t gets as far as dispatching a ForwardTo action.
PeelsForward(p) == PeelSessions(p).res = "ok" /\ p.action.kind = "ForwardTo"

\* C20: the forward queue never holds more than forward_packet_queue_capacity
\* packets; a packet to forward that arrives when the queue is full is
\* dropped: handle_packet returns None and leaves the forward queue, every
\* replay filter and the invalidation flags as they were.
C20_ForwardQueueBounded ==
    /\ Len(forward_packet_queue) <= ForwardQueueCapacity
    /\ \A p \in ForwardUniverse.packets, t \in now .. MaxNow :
           (PeelsForward(p) /\ Len(forward_packet_queue) >= ForwardQueueCapacity) =>
               LET out == HandleOutcome(p, t)
               IN  /\ out.ret = NoMessage
                   /\ out.forward_packet_queue = forward_packet_queue
                   /\ ReplayFilters(out.sessions) = ReplayFilters(sessions)
                   /\ out.invalidated = invalidated

\* A packet to forward has just been dropped at a full queue.
C20_Witness ==
    /\ last = Call("handle_packet", "queue_full")
    /\ Len(forward_packet_queue) = ForwardQueueCapacity

\* handle_packet(p) at time t inserts into a replay filter.
Recorded(p, t) == ReplayFilters(HandleOutcome(p, t).sessions) # ReplayFilters(sessions)

\* handle_packet(p) at time t adds p, and nothing else, to the forward queue.
Queued(p, t) ==
    LET queue == HandleOutcome(p, t).forward_packet_queue
    IN  \E i \in 1 .. Len(queue) :
            /\ queue[i] = [deadline |-> t + p.action.delay, kx |-> p.kx,
                           peer_id |-> p.action.target]
            /\ RemoveAt(queue, i) = forward_packet_queue

\* C17 as stated: every packet to forward that handle_packet records in a
\* replay filter is put into the forward queue by the same call.
C17_RecordedIsQueuedAsStated ==
    \A p \in ForwardUniverse.packets, t \in now .. MaxNow :
        (PeelsForward(p) /\ Recorded(p, t)) => Queued(p, t)

\* C17: every packet to forward that handle_packet records in a replay filter
\* is put into the forward queue by the same call, unless the topology of
\* its session cannot map its target to a peer id: then the packet stays
\* recorded, the forward queue is left as it was and None is returned.
C17_RecordedIsQueued ==
    \A p \in ForwardUniverse.packets, t \in now .. MaxNow :
        (PeelsForward(p) /\ Recorded(p, t)) =>
            LET topology == Slot(sessions, PeelSessions(p).rel).session.topology
                out == HandleOutcome(p, t)
            IN  IF target_to_peer_id_ok(topology, p.action.target)
                THEN Queued(p, t)
                ELSE /\ out.forward_packet_queue = forward_packet_queue
                     /\ out.ret = NoMessage

\* A packet whose target has no peer id has just been recorded without being
\* queued, and a packet recorded before it is on the forward queue.
C17_Witness ==
    /\ last = Call("handle_packet", "bad_target")
    /\ Len(forward_packet_queue) = 1
    /\ \E rel \in RelSessionIndex : Cardinality(ReplayFilters(sessions)[rel]) = 2

\* The authored queue of the slot (empty where there is no session).
AuthoredQueue(ss, rel) ==
    IF is_full(Slot(ss, rel)) THEN Slot(ss, rel).session.authored_packet_queue
    ELSE << >>

\* C18: pop_next_authored_packet removes a packet from a session's authored
\* queue only when that session is Full and selected (gen_cover_packets of
\* the phase holds for it), the loop-cover branch was not taken and the phase
\* allows requests and replies on that relative session; it then removes the
\* head and returns it.  In every other outcome all authored queues stay as
\* they were, and when no session is eligible it returns None and does not
\* raise NEXT_AUTHORED_PACKET_DEADLINE.
C18_AuthoredPopOnlyWhenAllowed ==
    \A first \in BOOLEAN, loop \in BOOLEAN, routed \in BOOLEAN :
        LET out == AuthoredOutcome(first, loop, routed)
            phase == session_status.phase
            eligible == {rel \in RelSessionIndex :
                             is_full(Slot(sessions, rel)) /\ gen_cover_packets(phase, rel)}
        IN  /\ \A rel \in RelSessionIndex :
                   AuthoredQueue(out.sessions, rel) # AuthoredQueue(sessions, rel) =>
                       /\ rel \in eligible
                       /\ ~loop
                       /\ allow_requests_and_replies(phase, rel)
                       /\ AuthoredQueue(out.sessions, rel) = Tail(AuthoredQueue(sessions, rel))
                       /\ out.ret = Head(AuthoredQueue(sessions, rel))
                       /\ \A other \in RelSessionIndex \ {rel} :
                              AuthoredQueue(out.sessions, other) = AuthoredQueue(sessions, other)
            /\ eligible = {} =>
                   /\ out.ret = NoPacket
                   /\ out.invalidated = invalidated
                   /\ out.sessions = sessions

\* A drop cover packet (or nothing) has just gone out for a session whose
\* queue holds a packet the phase does not let out.
C18_Witness ==
    /\ last = Call("pop_next_authored_packet", "drop")
    /\ \E rel \in RelSessionIndex :
           /\ is_full(Slot(sessions, rel))
           /\ gen_cover_packets(session_status.phase, rel)
           /\ ~allow_requests_and_replies(session_status.phase, rel)
           /\ Len(AuthoredQueue(sessions, rel)) > 0
           /\ \A other \in RelSessionIndex \ {rel} : ~is_full(Slot(sessions, other))

\* The authored queue of the session of that index (empty where there is none).
QueueOf(ss, status, index) ==
    IF \E rel \in RelSessionIndex : RelAdd(rel, status.current_index) = index
    THEN AuthoredQueue(ss, CHOOSE rel \in RelSessionIndex :
                               RelAdd(rel, status.current_index) = index)
    ELSE << >>

\* C12: within a session the authored queue is first in, first out.  Over any
\* interleaving of calls a post only appends to the queue of a session, a pop
\* only removes its head, and the packet a pop returns is that head; a queue
\* changes in no other way while its session lives.
C12_AuthoredFifo ==
    /\ [](\A first \in BOOLEAN, loop \in BOOLEAN, routed \in BOOLEAN,
             rel \in RelSessionIndex :
              LET out == AuthoredOutcome(first, loop, routed)
              IN  AuthoredQueue(out.sessions, rel) # AuthoredQueue(sessions, rel) =>
                      out.ret = Head(AuthoredQueue(sessions, rel)))
    /\ [][\A index \in SessionIndex :
              LET before == QueueOf(sessions, session_status, index)
                  after == QueueOf(sessions', session_status', index)
              IN  \/ after = before
                  \/ /\ last'.op \in {"post_request", "post_reply"}
                     /\ IsPrefix(before, after)
                  \/ /\ last'.op = "pop_next_authored_packet"
                     /\ before # << >>
                     /\ after = Tail(before)
                  \/ /\ last'.op = "set_session_status"
                     /\ after = << >>]_vars

\* The first fragment of a message has just been popped and the second one
\* is now at the head of the queue.
C12_Witness ==
    /\ last = Call("pop_next_authored_packet", "authored")
    /\ \E rel \in RelSessionIndex :
           /\ Len(AuthoredQueue(sessions, rel)) = 1
           /\ AuthoredQueue(sessions, rel)[1].index = 2

\* The session of the slot peels p: it holds the secret p was built for, has
\* not seen p's key-exchange public, and p is well formed.
SlotPeels(rel, p) == is_full(Slot(sessions, rel)) /\ TryPeel(rel, p) = "ok"

\* The current session gives p a MAC failure or has no secret (or is absent).
CurrentPassesOn(p) ==
    is_full(sessions.current) =>
        session_exchange(kx_store, RelAdd(Current, session_status.current_index)) # p.key

\* handle_packet(p) peels p with the session of slot rel and acts on it.
ActedOnBy(rel, p) == PeelSessions(p) = [res |-> "ok", rel |-> rel]

\* C13 as stated: handle_packet tries the Full current session first and then
\* the Full previous one, and the first successful peel wins; a packet for
\* the previous session's key is peeled and acted on, once the current
\* session's key gives a MAC failure or has no secret, for as long as the
\* previous session is retained.
C13_PrevStillPeeledAsStated ==
    \A p \in InboundUniverse.packets :
        /\ SlotPeels(Current, p) => ActedOnBy(Current, p)
        /\ (SlotPeels(Prev, p) /\ CurrentPassesOn(p)) => ActedOnBy(Prev, p)

\* C13: handle_packet tries the Full current session first and then the Full
\* previous one, and the first successful peel wins; a packet for the
\* previous session's key is peeled and acted on, once the current session's
\* key gives a MAC failure or has no secret, for as long as the previous
\* session is retained, unless the current session's replay filter holds the
\* packet's key-exchange public: then the search stops at the current
\* session and the packet is dropped.
C13_PrevStillPeeled ==
    \A p \in InboundUniverse.packets :
        /\ SlotPeels(Current, p) => ActedOnBy(Current, p)
        /\ (SlotPeels(Prev, p) /\ CurrentPassesOn(p)) =>
               IF is_full(sessions.current) /\ InReplayFilter(sessions.current.session, p)
               THEN /\ PeelSessions(p).res = "replay"
                    /\ \A t \in now .. MaxNow : HandleOutcome(p, t) = Dropped("replay")
               ELSE ActedOnBy(Prev, p)

\* A request for the previous session's key has just been accepted while a
\* current session with another key is in place.
C13_Witness ==
    /\ last = Call("handle_packet", "request")
    /\ is_full(sessions.current) /\ is_full(sessions.prev)
    /\ sessions.current.session.replay_filter = {}
    /\ sessions.prev.session.replay_filter # {}
    /\ accepted = {p \in InboundUniverse.packets :
                       p.key = sessions.prev.session.kx /\ p.action.kind = "DeliverRequest"}

\* C16: the replay filter of a session in which the node is not a mixnode is
\* never inserted into.  handle_packet inserts for a packet to forward only
\* when the node is a mixnode of the session and the forward queue is not
\* full, for a request only when the node is a mixnode of the session, and
\* for a reply or a cover packet never; so the filter of such a session is
\* empty in every state.
C16_NonMixnodeFilterEmpty ==
    /\ \A rel \in RelSessionIndex :
           (is_full(Slot(sessions, rel)) /\ ~Slot(sessions, rel).session.topology.is_mixnode) =>
               Slot(sessions, rel).session.replay_filter = {}
    /\ \A p \in InboundUniverse.packets, rel \in RelSessionIndex :
           LET after == ReplayFilters(HandleOutcome(p, now).sessions)
           IN  after[rel] # ReplayFilters(sessions)[rel] =>
                   /\ after[rel] = ReplayFilters(sessions)[rel] \cup {p.kx}
                   /\ ActedOnBy(rel, p)
                   /\ Slot(sessions, rel).session.topology.is_mixnode
                   /\ p.action.kind \in {"ForwardTo", "DeliverRequest"}
                   /\ p.action.kind = "ForwardTo" =>
                          Len(forward_packet_queue) < ForwardQueueCapacity

\* A packet has just been refused by a session in which the node is not a
\* mixnode, and no filter of such a session holds anything.
C16_Witness ==
    /\ last = Call("handle_packet", "not_mixnode")
    /\ \E rel \in RelSessionIndex :
           /\ is_full(Slot(sessions, rel))
           /\ ~Slot(sessions, rel).session.topology.is_mixnode
           /\ Slot(sessions, rel).session.replay_filter = {}

\* handle_packet(p) gets as far as dispatching a DeliverReply action.
PeelsReply(p) == PeelSessions(p).res = "ok" /\ p.action.kind = "DeliverReply"

\* C11: SURB keystore entries are single-use.  A reply whose surb_id is in
\* the keystore removes the entry whether or not its payload decrypts; an
\* entry that is gone never comes back, and a reply whose surb_id is not in
\* the keystore returns None and feeds nothing to the fragment assembler.  A
\* reply never inserts into a replay filter.
C11_SurbSingleUse ==
    /\ [](\A p \in InboundUniverse.packets :
              PeelsReply(p) =>
                  LET out == HandleOutcome(p, now)
                      known == SurbKnown(surb_keystore, p.action.surb_id)
                  IN  /\ ReplayFilters(out.sessions) = ReplayFilters(sessions)
                      /\ ~SurbKnown(out.surb_keystore, p.action.surb_id)
                      /\ (known /\ ~p.action.payload_ok) =>
                             /\ out.ret = NoMessage
                             /\ out.fragment_assembler = fragment_assembler
                      /\ ~known =>
                             /\ out.ret = NoMessage
                             /\ out.fragment_assembler = fragment_assembler
                             /\ out.surb_keystore = surb_keystore)
    /\ [][\A surb_id \in 1 .. surb_keystore.generated :
              ~SurbKnown(surb_keystore, surb_id) => ~SurbKnown(surb_keystore', surb_id)]_vars

\* A reply that does not decrypt has just used up the only SURB handed out.
C11_Witness ==
    /\ last = Call("handle_packet", "decrypt_failed")
    /\ surb_keystore.generated = 1
    /\ surb_keystore.entries = << >>

\* C24: a set_session_status call whose current_index is the stored one
\* neither rotates nor clears the slots: the current slot stays as it was,
\* and so does the previous slot unless the new phase does not need the
\* previous session, in which case it becomes Disabled.  A call with the
\* stored status changes nothing at all.
C24_SameIndexKeepsSlots ==
    \A status \in [current_index : ReportedIndex, phase : SessionPhase] :
        LET out == StatusOutcome(status)
        IN  /\ status.current_index = session_status.current_index =>
                   /\ out.sessions.current = sessions.current
                   /\ out.sessions.prev =
                          IF need_prev(status.phase) THEN sessions.prev ELSE Disabled
            /\ status = session_status =>
                   /\ out.sessions = sessions
                   /\ out.kx_store = kx_store
                   /\ out.invalidated = invalidated
                   /\ out.session_status = session_status

\* The phase has just changed under an unchanged index and both sessions
\* are still in place.
C24_Witness ==
    /\ last = Call("set_session_status", "phase")
    /\ is_full(sessions.current)
    /\ is_full(sessions.prev)

\* The packets at the heads of the authored queues.
AuthoredHeads ==
    {Head(AuthoredQueue(sessions, rel)) :
         rel \in {r \in RelSessionIndex : AuthoredQueue(sessions, r) # << >>}}

\* C22: with gen_cover_packets false in the configuration,
\* pop_next_authored_packet never makes a packet up: it returns None or the
\* packet at the head of an authored queue, and with all authored queues
\* empty it returns None, in every phase.
C22_NoCoverWhenDisabled ==
    ~config.gen_cover_packets =>
        \A first \in BOOLEAN, loop \in BOOLEAN, routed \in BOOLEAN :
            LET out == AuthoredOutcome(first, loop, routed)
            IN  /\ out.ret \in {NoPacket} \cup AuthoredHeads
                /\ out.ret # NoPacket => out.sessions # sessions
                /\ AuthoredHeads = {} => out.ret = NoPacket

\* With cover packets disabled a pop has just come back empty-handed from an
\* active session whose queue is empty.
C22_Witness ==
    /\ ~config.gen_cover_packets
    /\ last = Call("pop_next_authored_packet", "drop")
    /\ ActiveSessions # << >>
    /\ AuthoredHeads = {}

\* The build fails after the SURB of fragment surb_frag was registered: in
\* build_surb for that SURB, or while building a later fragment.
FailsAfterSurb(surb_frag, fail) ==
    /\ surb_frag # 0
    /\ \/ fail.stage = "surb" /\ fail.frag = surb_frag
       \/ fail.stage = "route" /\ fail.frag > surb_frag

\* C23: SURB keystore entries are not rolled back on failure.  When
\* post_request fails with a Topology error while building a fragment or one
\* of its SURBs, the entry registered earlier in that call is in the SURB
\* keystore when the call returns.
C23_SurbEntriesNotRolledBack ==
    \A dest \in Destinations, id \in MessageIds,
       blueprints \in 1 .. MaxFragmentsPerMessage :
        \A surb_frag \in 1 .. blueprints :
            \A fail \in BuildFailures(blueprints, surb_frag) :
                LET out == RequestOutcome(dest, id, blueprints, surb_frag, fail)
                IN  (out.ret.err = "Topology" /\ FailsAfterSurb(surb_frag, fail)) =>
                        /\ out.surb_keystore.generated = surb_keystore.generated + 1
                        /\ SurbKnown(out.surb_keystore, out.surb_keystore.generated)

\* A post_request has just failed with a Topology error, nothing is queued
\* and the keystore holds the entry of the one SURB ever asked for.
C23_Witness ==
    /\ last = Call("post_request", "Topology")
    /\ surb_keystore.generated = 1
    /\ SurbKnown(surb_keystore, 1)
    /\ \A rel \in RelSessionIndex : AuthoredQueue(sessions, rel) = << >>

\* C21 as stated: a message handle_packet emits as Message::Request is
\* assembled only from fragments that arrived through DeliverRequest, and a
\* Message::Reply only from fragments that arrived through DeliverReply;
\* fragments of the two kinds with the same message id are never combined
\* into one emitted message.
C21_AssembledFromOneKind ==
    \A p \in AssemblyUniverse.packets :
        LET out == HandleOutcome(p, now)
        IN  /\ out.ret.kind = "Request" => out.ret.vias = {"request"}
            /\ out.ret.kind = "Reply" => out.ret.vias = {"reply"}

=============================================================================
